---- MODULE Spec2Model ----
(***************************************************************************)
(* A model of draw_scene.cc: the scene driver (main), the render call,     *)
(* the model construction and teardown, and the input callbacks with the   *)
(* two file-scope pointers they work through.                              *)
(*                                                                         *)
(* Spec / FairSpec  the program main() as written                          *)
(* SpecKeys         KeyCallback (line 99) and UpdateCameraPose applied to  *)
(*                  a held-key vector and a camera controller that exist   *)
(* SpecMouse        MouseCallback and ScrollCallback applied to a camera   *)
(*                  controller that exists                                 *)
(*                                                                         *)
(* Cursor coordinates are doubles in the source; here they are counted in  *)
(* halves (the integer 3 stands for 1.5), so that the conversion to the    *)
(* int statics of MouseCallback loses what it loses in the source.         *)
(***************************************************************************)
EXTENDS Integers, Sequences, FiniteSets, TLC

\* ------------------------------------------------------------- bounds
MaxFrames == 2
MaxBatch == 2
MaxCoord == 2

\* ---------------------------------------------------------- constants
kWindowWidth == 640
kWindowHeight == 480
kKeyLimit == 1024
kVectorSize == 1024
GLFW_KEY_W == 87
GLFW_KEY_S == 83
GLFW_KEY_A == 65
GLFW_KEY_D == 68
GLFW_KEY_ESCAPE == 256
GLFW_RELEASE == 0
GLFW_PRESS == 1
GLFW_REPEAT == 2

VARIABLES
  pc,                    \* position of main()
  mainReturn,            \* <<>> while running, <<code>> once main returned
  failedStep,            \* the initialization step that failed, or "none"
  glfwUp,                \* glfwInit succeeded and glfwTerminate not yet called
  window,                \* [state, shouldClose]
  shader_program,        \* [created, id]
  models_to_draw,        \* sequence of model records
  texture_ids,           \* sequence of texture ids
  projection,            \* arguments the projection matrix was built from
  projectionCount,       \* number of times the projection was computed
  view,                  \* the view local of main
  frames,                \* number of RenderScene calls so far
  stepLog,               \* calls of the current loop iteration, in order
  drawLog,               \* Draw calls of the current loop iteration
  teardownLog,           \* teardown calls, in order
  lastPoll,              \* key events delivered by the latest glfwPollEvents
  escDelivered,          \* an Escape press was delivered to the key callback
  keyCallbackDef,        \* which of the two KeyCallback definitions is wired
  movement_vector_ptr,   \* [null, size, held]
  camera_controller_ptr, \* [null, rotation_sensitivity]
  last_x_position,       \* static int of MouseCallback
  last_y_position,       \* static int of MouseCallback
  first_call,            \* static bool of MouseCallback
  lastPR,                \* per key: latest press-or-release delivered
  lastCall,              \* the latest handler invocation and its inputs
  heldBefore,            \* held keys before the latest handler invocation
  cameraCalls,           \* controller calls made by the latest invocation
  prevPos                \* exact cursor position of the preceding invocation

progVars == <<pc, mainReturn, failedStep, glfwUp, shader_program,
              models_to_draw, texture_ids, projection, projectionCount, view,
              frames, stepLog, drawLog, teardownLog, lastPoll, escDelivered>>

globalVars == <<keyCallbackDef, camera_controller_ptr>>

mouseVars == <<last_x_position, last_y_position, first_call, prevPos>>

keyGhosts == <<lastPR, heldBefore>>

vars == <<pc, mainReturn, failedStep, glfwUp, window, shader_program,
          models_to_draw, texture_ids, projection, projectionCount, view,
          frames, stepLog, drawLog, teardownLog, lastPoll, escDelivered,
          keyCallbackDef, movement_vector_ptr, camera_controller_ptr,
          last_x_position, last_y_position, first_call,
          lastPR, lastCall, heldBefore, cameraCalls, prevPos>>

\* ------------------------------------------------------------ helpers
KeyActions == {GLFW_RELEASE, GLFW_PRESS, GLFW_REPEAT}

MoveKeys == {GLFW_KEY_W, GLFW_KEY_S, GLFW_KEY_A, GLFW_KEY_D}

\* Key codes the window system delivers to main's key callback.
MainKeys == {GLFW_KEY_W, GLFW_KEY_ESCAPE, kKeyLimit}

\* Key codes applied to KeyCallback in SpecKeys.
UnitKeys == MoveKeys \cup {GLFW_KEY_ESCAPE, kKeyLimit - 1, kKeyLimit, -1}

InRange(keys) == {k \in keys : k >= 0 /\ k < kVectorSize}

NullVector == [null |-> TRUE, size |-> 0, held |-> {}]

NullController == [null |-> TRUE, rotation_sensitivity |-> 0]

NoCall == [op |-> "none", key |-> 0, action |-> 0, x |-> 0, y |-> 0,
           px |-> 0, py |-> 0, first |-> FALSE, fault |-> "none"]

\* One call on the camera controller.
Call(op, arg) == [op |-> op, arg |-> arg]

NoProjection == [fov_deg |-> 0, aspect |-> <<0, 1>>, near_x10 |-> 0,
                 far_x10 |-> 0]

NoView == [source |-> "none", matrix |-> "none"]

\* ------------------------------------------------- the key callbacks
\* movement_vector_ptr->at(key) = value
VectorAt(st, key, value) ==
  IF st.mv.null THEN [st EXCEPT !.fault = "null_deref"]
  ELSE IF key < 0 \/ key >= st.mv.size
       THEN [st EXCEPT !.fault = "out_of_range"]
       ELSE [st EXCEPT !.mv.held =
                         IF value THEN @ \cup {key} ELSE @ \ {key}]

\* A slip in the range guard: <= where the source has <.
KeyCallback_guard(key, action, st) ==
  LET s1 == IF key = GLFW_KEY_ESCAPE /\ action = GLFW_PRESS
            THEN [st EXCEPT !.shouldClose = TRUE] ELSE st
  IN  IF key >= 0 /\ key <= kKeyLimit
      THEN IF action = GLFW_PRESS THEN VectorAt(s1, key, TRUE)
           ELSE IF action = GLFW_RELEASE THEN VectorAt(s1, key, FALSE)
           ELSE s1
      ELSE s1

\* A slip in the Escape test: closes on release instead of press.
KeyCallback_release(key, action, st) ==
  LET s1 == IF key = GLFW_KEY_ESCAPE /\ action = GLFW_RELEASE
            THEN [st EXCEPT !.shouldClose = TRUE] ELSE st
  IN  IF key >= 0 /\ key < kKeyLimit
      THEN IF action = GLFW_PRESS THEN VectorAt(s1, key, TRUE)
           ELSE IF action = GLFW_RELEASE THEN VectorAt(s1, key, FALSE)
           ELSE s1
      ELSE s1

\* The definition at line 99.
KeyCallback(key, action, st) ==
  LET s1 == IF key = GLFW_KEY_ESCAPE /\ action = GLFW_PRESS
            THEN [st EXCEPT !.shouldClose = TRUE] ELSE st
  IN  IF key >= 0 /\ key < kKeyLimit
      THEN IF action = GLFW_PRESS THEN VectorAt(s1, key, TRUE)
           ELSE IF action = GLFW_RELEASE THEN VectorAt(s1, key, FALSE)
           ELSE s1
      ELSE s1

\* The definition at line 201.
KeyCallback_2(key, action, st) ==
  IF key = GLFW_KEY_ESCAPE /\ action = GLFW_PRESS
  THEN [st EXCEPT !.shouldClose = TRUE] ELSE st

\* The callback glfwSetKeyCallback registered at line 440.
RegisteredKeyCallback(key, action, st) ==
  IF keyCallbackDef = 1 THEN KeyCallback(key, action, st)
  ELSE KeyCallback_2(key, action, st)

\* -------------------------------------------------- UpdateCameraPose
\* A slip: an else-if chain, so only the first held key moves the camera.
UpdateCameraPose_chain(held) ==
  IF GLFW_KEY_W \in held THEN <<Call("MoveFront", 0)>>
  ELSE IF GLFW_KEY_S \in held THEN <<Call("MoveBack", 0)>>
  ELSE IF GLFW_KEY_A \in held THEN <<Call("MoveLeft", 0)>>
  ELSE IF GLFW_KEY_D \in held THEN <<Call("MoveRight", 0)>>
  ELSE <<>>

\* The controller calls of one UpdateCameraPose, in order.
UpdateCameraPose(held) ==
  (IF GLFW_KEY_W \in held THEN <<Call("MoveFront", 0)>> ELSE <<>>) \o
  (IF GLFW_KEY_S \in held THEN <<Call("MoveBack", 0)>> ELSE <<>>) \o
  (IF GLFW_KEY_A \in held THEN <<Call("MoveLeft", 0)>> ELSE <<>>) \o
  (IF GLFW_KEY_D \in held THEN <<Call("MoveRight", 0)>> ELSE <<>>)

\* ------------------------------------------------------ MouseCallback
\* double -> int: the fraction is dropped, toward zero. h counts halves.
ToInt(h) == IF h >= 0 THEN h \div 2 ELSE -((-h) \div 2)

\* st = [last_x, last_y, first_call]; x, y in halves. The result carries the
\* new statics and the arguments given to AddYawOffset and AddPitchOffset,
\* in halves times the sensitivity.
MouseCallback(x, y, st, sensitivity) ==
  LET lx == IF st.first_call THEN ToInt(x) ELSE st.last_x
      ly == IF st.first_call THEN ToInt(y) ELSE st.last_y
  IN  [last_x |-> ToInt(x), last_y |-> ToInt(y), first_call |-> FALSE,
       yaw |-> sensitivity * (x - 2 * lx),
       pitch |-> sensitivity * (2 * ly - y)]

\* -------------------------------------------------- the model objects
NewModel(name, cols, indices, assigned) ==
  [name |-> name, rows |-> 8, cols |-> cols, assigned |-> assigned,
   indices |-> indices, uploads |-> 0, draws |-> 0, deletes |-> 0,
   drawsNotUploaded |-> 0, drawsAfterDelete |-> 0, uploadsAfterDraw |-> 0]

\* model->SetVerticesIntoGpu()
SetVerticesIntoGpu(m) ==
  [m EXCEPT !.uploads = @ + 1,
            !.uploadsAfterDraw = IF m.draws > 0 THEN @ + 1 ELSE @]

\* models_to_draw->at(i)->Draw(...)
DrawCall(m) ==
  [m EXCEPT !.draws = @ + 1,
            !.drawsNotUploaded = IF m.uploads = 0 THEN @ + 1 ELSE @,
            !.drawsAfterDelete = IF m.deletes > 0 THEN @ + 1 ELSE @]

\* delete models_to_draw->at(i)
DeleteCall(m) == [m EXCEPT !.deletes = @ + 1]

PyramidIndices ==
  <<0, 3, 2,  0, 2, 1,  0, 4, 1,  0, 3, 4,  3, 2, 4,  2, 1, 4>>

CubeIndices ==
  <<0, 3, 2,  0, 2, 1,  0, 4, 1,  1, 5, 2,  2, 6, 3,  3, 7, 0,
    4, 5, 1,  5, 6, 2,  6, 7, 3,  7, 4, 0,  4, 7, 5,  5, 7, 6>>

\* A slip: the cube is built over the pyramid's five-column matrix.
ConstructModels_cols ==
  << SetVerticesIntoGpu(NewModel("pyramid", 5, PyramidIndices, 0 .. 4)),
     SetVerticesIntoGpu(NewModel("cube", 5, CubeIndices, 0 .. 3)) >>

\* The vector ConstructModels leaves in models_to_draw. The cube's matrix has
\* eight columns, of which the source assigns columns 0..3 (twice).
ConstructModels ==
  << SetVerticesIntoGpu(NewModel("pyramid", 5, PyramidIndices, 0 .. 4)),
     SetVerticesIntoGpu(NewModel("cube", 8, CubeIndices, 0 .. 3)) >>

\* A slip: the loop starts at the second model.
DeleteModels_skip(models) ==
  [i \in DOMAIN models |-> IF i = 1 THEN models[i] ELSE DeleteCall(models[i])]

DeleteModels(models) == [i \in DOMAIN models |-> DeleteCall(models[i])]

\* The delete calls of DeleteModels, in order.
DeleteLog(before, after) ==
  [i \in DOMAIN after |->
     IF after[i].deletes > before[i].deletes THEN "delete" ELSE "skip"]

\* ------------------------------------------------ the shader program
\* ShaderProgram::Create: what it returns and the program id it leaves. A
\* link failure happens on a program object the device already created.
CreateOutcomes ==
  { [created |-> TRUE, id |-> 1],
    [created |-> FALSE, id |-> 0],
    [created |-> FALSE, id |-> 1] }

\* The value CreateShaderProgram returns, given what Create left.
CreateShaderProgram(sp) == sp.id # 0

\* ------------------------------------------------------- RenderScene
DrawRecord(models, i) ==
  [model |-> models[i].name, texture |-> texture_ids[i],
   projection |-> projection, view |-> view]

RenderSceneSteps(models) ==
  <<"ClearTheFrameBuffer", "Use", "glPolygonMode">> \o
  [i \in DOMAIN models |-> "Draw"] \o <<"glBindVertexArray">>

\* ------------------------------------------------------------- main
Fail(step, teardown) ==
  /\ pc' = "exited"
  /\ mainReturn' = << -1 >>
  /\ failedStep' = step
  /\ teardownLog' = teardownLog \o teardown

GlfwInit ==
  /\ pc = "glfwInit"
  /\ \E ok \in BOOLEAN :
       IF ok
       THEN /\ glfwUp' = TRUE
            /\ pc' = "glfwCreateWindow"
            /\ UNCHANGED <<mainReturn, failedStep, teardownLog>>
       ELSE /\ Fail("glfwInit", <<>>)
            /\ UNCHANGED glfwUp
  /\ UNCHANGED <<window, shader_program, models_to_draw, texture_ids,
                 projection, projectionCount, view, frames, stepLog, drawLog,
                 lastPoll, escDelivered>>
  /\ UNCHANGED <<globalVars, movement_vector_ptr, mouseVars, keyGhosts,
                 lastCall, cameraCalls>>

CreateWindow ==
  /\ pc = "glfwCreateWindow"
  /\ \E ok \in BOOLEAN :
       IF ok
       THEN /\ window' = [window EXCEPT !.state = "open"]
            /\ pc' = "glewInit"
            /\ UNCHANGED <<mainReturn, failedStep, teardownLog, glfwUp>>
       ELSE /\ Fail("glfwCreateWindow", <<"glfwTerminate">>)
            /\ glfwUp' = FALSE
            /\ UNCHANGED window
  /\ UNCHANGED <<shader_program, models_to_draw, texture_ids,
                 projection, projectionCount, view, frames, stepLog, drawLog,
                 lastPoll, escDelivered>>
  /\ UNCHANGED <<globalVars, movement_vector_ptr, mouseVars, keyGhosts,
                 lastCall, cameraCalls>>

GlewInit ==
  /\ pc = "glewInit"
  /\ \E ok \in BOOLEAN :
       IF ok
       THEN /\ pc' = "CreateShaderProgram"
            /\ UNCHANGED <<mainReturn, failedStep, teardownLog, glfwUp>>
       ELSE /\ Fail("glewInit", <<"glfwTerminate">>)
            /\ glfwUp' = FALSE
  /\ UNCHANGED <<window, shader_program, models_to_draw, texture_ids,
                 projection, projectionCount, view, frames, stepLog, drawLog,
                 lastPoll, escDelivered>>
  /\ UNCHANGED <<globalVars, movement_vector_ptr, mouseVars, keyGhosts,
                 lastCall, cameraCalls>>

CreateShader ==
  /\ pc = "CreateShaderProgram"
  /\ \E sp \in CreateOutcomes :
       /\ shader_program' = sp
       /\ IF CreateShaderProgram(sp)
          THEN /\ pc' = "ConstructModels"
               /\ UNCHANGED <<mainReturn, failedStep, teardownLog>>
          ELSE Fail("CreateShaderProgram", <<>>)
  /\ UNCHANGED <<glfwUp, window, models_to_draw, texture_ids,
                 projection, projectionCount, view, frames, stepLog, drawLog,
                 lastPoll, escDelivered>>
  /\ UNCHANGED <<globalVars, movement_vector_ptr, mouseVars, keyGhosts,
                 lastCall, cameraCalls>>

ConstructModelsStep ==
  /\ pc = "ConstructModels"
  /\ models_to_draw' = models_to_draw \o ConstructModels
  /\ pc' = "LoadTexture"
  /\ UNCHANGED <<mainReturn, failedStep, glfwUp, window, shader_program,
                 texture_ids, projection, projectionCount, view, frames,
                 stepLog, drawLog, teardownLog, lastPoll, escDelivered>>
  /\ UNCHANGED <<globalVars, movement_vector_ptr, mouseVars, keyGhosts,
                 lastCall, cameraCalls>>

LoadTextures ==
  /\ pc = "LoadTexture"
  /\ texture_ids' = <<1, 2>>
  /\ pc' = "projection"
  /\ UNCHANGED <<mainReturn, failedStep, glfwUp, window, shader_program,
                 models_to_draw, projection, projectionCount, view, frames,
                 stepLog, drawLog, teardownLog, lastPoll, escDelivered>>
  /\ UNCHANGED <<globalVars, movement_vector_ptr, mouseVars, keyGhosts,
                 lastCall, cameraCalls>>

\* The aspect ratio main computes, as a fraction: an int division, then float.
AspectRatio == <<kWindowWidth \div kWindowHeight, 1>>

ComputeProjection ==
  /\ pc = "projection"
  /\ projection' = [fov_deg |-> 45, aspect |-> AspectRatio, near_x10 |-> 1,
                    far_x10 |-> 200]
  /\ projectionCount' = projectionCount + 1
  /\ view' = [source |-> "main_local", matrix |-> "Identity"]
  /\ pc' = "loopTest"
  /\ UNCHANGED <<mainReturn, failedStep, glfwUp, window, shader_program,
                 models_to_draw, texture_ids, frames, stepLog, drawLog,
                 teardownLog, lastPoll, escDelivered>>
  /\ UNCHANGED <<globalVars, movement_vector_ptr, mouseVars, keyGhosts,
                 lastCall, cameraCalls>>

LoopTest ==
  /\ pc = "loopTest"
  /\ IF window.shouldClose
     THEN /\ pc' = "DeleteModels"
          /\ UNCHANGED <<stepLog, drawLog>>
     ELSE /\ frames < MaxFrames
          /\ pc' = "RenderScene"
          /\ stepLog' = <<>>
          /\ drawLog' = <<>>
  /\ UNCHANGED <<mainReturn, failedStep, glfwUp, window, shader_program,
                 models_to_draw, texture_ids, projection, projectionCount,
                 view, frames, teardownLog, lastPoll, escDelivered>>
  /\ UNCHANGED <<globalVars, movement_vector_ptr, mouseVars, keyGhosts,
                 lastCall, cameraCalls>>

RenderScene ==
  /\ pc = "RenderScene"
  /\ stepLog' = stepLog \o RenderSceneSteps(models_to_draw)
  /\ drawLog' = drawLog \o
                  [i \in DOMAIN models_to_draw |-> DrawRecord(models_to_draw, i)]
  /\ models_to_draw' = [i \in DOMAIN models_to_draw |->
                          DrawCall(models_to_draw[i])]
  /\ frames' = frames + 1
  /\ pc' = "glfwSwapBuffers"
  /\ UNCHANGED <<mainReturn, failedStep, glfwUp, window, shader_program,
                 texture_ids, projection, projectionCount, view, teardownLog,
                 lastPoll, escDelivered>>
  /\ UNCHANGED <<globalVars, movement_vector_ptr, mouseVars, keyGhosts,
                 lastCall, cameraCalls>>

SwapBuffers ==
  /\ pc = "glfwSwapBuffers"
  /\ stepLog' = Append(stepLog, "glfwSwapBuffers")
  /\ lastPoll' = <<>>
  /\ pc' = "glfwPollEvents"
  /\ UNCHANGED <<mainReturn, failedStep, glfwUp, window, shader_program,
                 models_to_draw, texture_ids, projection, projectionCount,
                 view, frames, drawLog, teardownLog, escDelivered>>
  /\ UNCHANGED <<globalVars, movement_vector_ptr, mouseVars, keyGhosts,
                 lastCall, cameraCalls>>

\* glfwPollEvents hands one pending key event to the registered callback. A
\* dereference of the null movement_vector_ptr is undefined: the process
\* dies there, or the access has no effect and the callback returns.
PollDeliver ==
  /\ pc = "glfwPollEvents"
  /\ Len(lastPoll) < MaxBatch
  /\ \E key \in MainKeys, action \in KeyActions, ub \in {"crash", "no_effect"} :
       LET st == [shouldClose |-> window.shouldClose,
                  mv |-> movement_vector_ptr, fault |-> "none"]
           r == RegisteredKeyCallback(key, action, st)
           dies == \/ r.fault = "out_of_range"
                   \/ r.fault = "null_deref" /\ ub = "crash"
       IN  /\ window' = [window EXCEPT !.shouldClose = r.shouldClose]
           /\ movement_vector_ptr' = r.mv
           /\ lastPoll' = Append(lastPoll, [key |-> key, action |-> action])
           /\ escDelivered' = (escDelivered \/
                                 (key = GLFW_KEY_ESCAPE /\ action = GLFW_PRESS))
           /\ pc' = IF dies THEN "crashed" ELSE pc
  /\ UNCHANGED <<mainReturn, failedStep, glfwUp, shader_program,
                 models_to_draw, texture_ids, projection, projectionCount,
                 view, frames, stepLog, drawLog, teardownLog>>
  /\ UNCHANGED <<globalVars, mouseVars, keyGhosts, lastCall, cameraCalls>>

PollReturn ==
  /\ pc = "glfwPollEvents"
  /\ stepLog' = Append(stepLog, "glfwPollEvents")
  /\ pc' = "loopTest"
  /\ UNCHANGED <<mainReturn, failedStep, glfwUp, window, shader_program,
                 models_to_draw, texture_ids, projection, projectionCount,
                 view, frames, drawLog, teardownLog, lastPoll, escDelivered>>
  /\ UNCHANGED <<globalVars, movement_vector_ptr, mouseVars, keyGhosts,
                 lastCall, cameraCalls>>

DeleteModelsStep ==
  /\ pc = "DeleteModels"
  /\ models_to_draw' = DeleteModels(models_to_draw)
  /\ teardownLog' = teardownLog \o DeleteLog(models_to_draw, models_to_draw')
  /\ pc' = "glfwDestroyWindow"
  /\ UNCHANGED <<mainReturn, failedStep, glfwUp, window, shader_program,
                 texture_ids, projection, projectionCount, view, frames,
                 stepLog, drawLog, lastPoll, escDelivered>>
  /\ UNCHANGED <<globalVars, movement_vector_ptr, mouseVars, keyGhosts,
                 lastCall, cameraCalls>>

DestroyWindow ==
  /\ pc = "glfwDestroyWindow"
  /\ window' = [window EXCEPT !.state = "destroyed"]
  /\ teardownLog' = Append(teardownLog, "glfwDestroyWindow")
  /\ pc' = "glfwTerminate"
  /\ UNCHANGED <<mainReturn, failedStep, glfwUp, shader_program,
                 models_to_draw, texture_ids, projection, projectionCount,
                 view, frames, stepLog, drawLog, lastPoll, escDelivered>>
  /\ UNCHANGED <<globalVars, movement_vector_ptr, mouseVars, keyGhosts,
                 lastCall, cameraCalls>>

Terminate ==
  /\ pc = "glfwTerminate"
  /\ glfwUp' = FALSE
  /\ teardownLog' = Append(teardownLog, "glfwTerminate")
  /\ mainReturn' = <<0>>
  /\ pc' = "exited"
  /\ UNCHANGED <<failedStep, window, shader_program, models_to_draw,
                 texture_ids, projection, projectionCount, view, frames,
                 stepLog, drawLog, lastPoll, escDelivered>>
  /\ UNCHANGED <<globalVars, movement_vector_ptr, mouseVars, keyGhosts,
                 lastCall, cameraCalls>>

Init ==
  /\ pc = "glfwInit"
  /\ mainReturn = <<>>
  /\ failedStep = "none"
  /\ glfwUp = FALSE
  /\ window = [state |-> "none", shouldClose |-> FALSE]
  /\ shader_program = [created |-> FALSE, id |-> 0]
  /\ models_to_draw = <<>>
  /\ texture_ids = <<>>
  /\ projection = NoProjection
  /\ projectionCount = 0
  /\ view = NoView
  /\ frames = 0
  /\ stepLog = <<>>
  /\ drawLog = <<>>
  /\ teardownLog = <<>>
  /\ lastPoll = <<>>
  /\ escDelivered = FALSE
  /\ keyCallbackDef \in {1, 2}
  /\ movement_vector_ptr = NullVector
  /\ camera_controller_ptr = NullController
  /\ last_x_position = 0
  /\ last_y_position = 0
  /\ first_call = TRUE
  /\ lastPR = [k \in InRange(UnitKeys) |-> "none"]
  /\ lastCall = NoCall
  /\ heldBefore = {}
  /\ cameraCalls = <<>>
  /\ prevPos = <<0, 0>>

Next ==
  \/ GlfwInit
  \/ CreateWindow
  \/ GlewInit
  \/ CreateShader
  \/ ConstructModelsStep
  \/ LoadTextures
  \/ ComputeProjection
  \/ LoopTest
  \/ RenderScene
  \/ SwapBuffers
  \/ PollDeliver
  \/ PollReturn
  \/ DeleteModelsStep
  \/ DestroyWindow
  \/ Terminate

Spec == Init /\ [][Next]_vars

\* main is one sequential thread: a step that can be taken is taken.
FairSpec == Init /\ [][Next]_vars /\ WF_vars(Next)

\* ------------------------------------- the callbacks, applied directly
\* SpecKeys and SpecMouse call the handlers as a caller would that has set
\* the two file-scope pointers to live objects and holds an open window.
InitCallbacks ==
  /\ pc = "callbacks"
  /\ mainReturn = <<>>
  /\ failedStep = "none"
  /\ glfwUp = TRUE
  /\ window = [state |-> "open", shouldClose |-> FALSE]
  /\ shader_program = [created |-> FALSE, id |-> 0]
  /\ models_to_draw = <<>>
  /\ texture_ids = <<>>
  /\ projection = NoProjection
  /\ projectionCount = 0
  /\ view = NoView
  /\ frames = 0
  /\ stepLog = <<>>
  /\ drawLog = <<>>
  /\ teardownLog = <<>>
  /\ lastPoll = <<>>
  /\ escDelivered = FALSE
  /\ keyCallbackDef = 1
  /\ movement_vector_ptr = [null |-> FALSE, size |-> kVectorSize, held |-> {}]
  /\ \E s \in {1, 3} :
       camera_controller_ptr = [null |-> FALSE, rotation_sensitivity |-> s]
  /\ last_x_position = 0
  /\ last_y_position = 0
  /\ first_call = TRUE
  /\ lastPR = [k \in InRange(UnitKeys) |-> "none"]
  /\ lastCall = NoCall
  /\ heldBefore = {}
  /\ cameraCalls = <<>>
  /\ prevPos = <<0, 0>>

KeyEvent ==
  /\ \E key \in UnitKeys, action \in KeyActions :
       LET st == [shouldClose |-> window.shouldClose,
                  mv |-> movement_vector_ptr, fault |-> "none"]
           r == KeyCallback(key, action, st)
       IN  /\ window' = [window EXCEPT !.shouldClose = r.shouldClose]
           /\ movement_vector_ptr' = r.mv
           /\ lastPR' = IF key \in DOMAIN lastPR /\ action = GLFW_PRESS
                        THEN [lastPR EXCEPT ![key] = "press"]
                        ELSE IF key \in DOMAIN lastPR /\ action = GLFW_RELEASE
                        THEN [lastPR EXCEPT ![key] = "release"]
                        ELSE lastPR
           /\ lastCall' = [NoCall EXCEPT !.op = "KeyCallback", !.key = key,
                                         !.action = action, !.fault = r.fault]
  /\ heldBefore' = movement_vector_ptr.held
  /\ cameraCalls' = <<>>
  /\ UNCHANGED <<progVars, globalVars, mouseVars>>

UpdatePose ==
  /\ ~movement_vector_ptr.null
  /\ ~camera_controller_ptr.null
  /\ cameraCalls' = UpdateCameraPose(movement_vector_ptr.held)
  /\ lastCall' = [NoCall EXCEPT !.op = "UpdateCameraPose"]
  /\ heldBefore' = movement_vector_ptr.held
  /\ UNCHANGED <<progVars, globalVars, mouseVars, window,
                 movement_vector_ptr, lastPR>>

Coords == (-MaxCoord) .. MaxCoord

CursorEvent ==
  /\ ~camera_controller_ptr.null
  /\ \E x \in Coords, y \in Coords :
       LET st == [last_x |-> last_x_position, last_y |-> last_y_position,
                  first_call |-> first_call]
           r == MouseCallback(x, y, st,
                              camera_controller_ptr.rotation_sensitivity)
       IN  /\ cameraCalls' = <<Call("AddYawOffset", r.yaw),
                               Call("AddPitchOffset", r.pitch)>>
           /\ last_x_position' = r.last_x
           /\ last_y_position' = r.last_y
           /\ first_call' = r.first_call
           /\ lastCall' = [NoCall EXCEPT !.op = "MouseCallback",
                                         !.x = x, !.y = y,
                                         !.px = prevPos[1], !.py = prevPos[2],
                                         !.first = first_call]
           /\ prevPos' = <<x, y>>
  /\ UNCHANGED <<progVars, globalVars, window, movement_vector_ptr,
                 keyGhosts>>

ScrollEvent ==
  /\ ~camera_controller_ptr.null
  /\ \E y_offset \in {-1, 1} :
       /\ cameraCalls' = <<Call("AdjustZoom", y_offset)>>
       /\ lastCall' = [NoCall EXCEPT !.op = "ScrollCallback", !.y = y_offset]
  /\ UNCHANGED <<progVars, globalVars, window, movement_vector_ptr,
                 keyGhosts, mouseVars>>

NextKeys ==
  \/ KeyEvent
  \/ UpdatePose

SpecKeys == InitCallbacks /\ [][NextKeys]_vars

NextMouse ==
  \/ CursorEvent
  \/ ScrollEvent

SpecMouse == InitCallbacks /\ [][NextMouse]_vars

\* ------------------------------------------------------------ claims
PreShaderSteps == {"glfwInit", "glfwCreateWindow", "glewInit",
                   "CreateShaderProgram"}

InitFailures == {"glfwInit", "glfwCreateWindow", "glewInit",
                 "CreateShaderProgram"}

\* ShaderProgram::Create has been called.
CreateCalled ==
  /\ pc \notin PreShaderSteps
  /\ failedStep \notin {"glfwInit", "glfwCreateWindow", "glewInit"}

C2_EscapeShutdown ==
  /\ [](escDelivered /\ pc # "crashed" => window.shouldClose)
  /\ [][escDelivered => frames' = frames]_vars
  /\ (escDelivered ~> (pc = "crashed" \/ (pc = "exited" /\ mainReturn = <<0>>)))

C2_Witness ==
  /\ escDelivered
  /\ frames >= 1
  /\ pc = "exited"
  /\ mainReturn = <<0>>

ClaimedSteps == {"UpdateCameraPose", "ClearTheFrameBuffer", "Use",
                 "glPolygonMode", "Draw", "glfwSwapBuffers", "glfwPollEvents"}

IsClaimedStep(s) == s \in ClaimedSteps

\* C4: every loop iteration is, in this order: UpdateCameraPose, clear, use
\* the shader program, polygon mode, one Draw per model (model i with
\* texture_ids[i]), swap buffers, poll events.
C4_FrameOrder ==
  (pc = "loopTest" /\ frames > 0) =>
    /\ SelectSeq(stepLog, IsClaimedStep) =
         <<"UpdateCameraPose", "ClearTheFrameBuffer", "Use", "glPolygonMode">>
         \o [i \in 1 .. Len(models_to_draw) |-> "Draw"]
         \o <<"glfwSwapBuffers", "glfwPollEvents">>
    /\ Len(drawLog) = Len(models_to_draw)
    /\ \A i \in DOMAIN drawLog :
         /\ drawLog[i].model = models_to_draw[i].name
         /\ drawLog[i].texture = texture_ids[i]

\* C5: in the frame after a poll that delivered a movement-key press, the
\* view given to every Draw is the camera controller's view.
C5_ViewFromCamera ==
  (/\ pc = "glfwSwapBuffers"
   /\ \E i \in DOMAIN lastPoll :
        lastPoll[i].key \in MoveKeys /\ lastPoll[i].action = GLFW_PRESS)
  => \A j \in DOMAIN drawLog : drawLog[j].view.source = "camera_controller"

\* C6: the first cursor event passes sensitivity times the difference between
\* the position and the last position seeded from it; every later one passes
\* AddYawOffset sensitivity * (x - x_prev) and AddPitchOffset
\* sensitivity * (y_prev - y), with (x_prev, y_prev) the exact position of
\* the preceding event; the last position is updated on every call.
C6_ExactDeltas ==
  lastCall.op = "MouseCallback" =>
    LET s == camera_controller_ptr.rotation_sensitivity IN
    /\ Len(cameraCalls) = 2
    /\ cameraCalls[1].op = "AddYawOffset"
    /\ cameraCalls[2].op = "AddPitchOffset"
    /\ IF lastCall.first
       THEN /\ cameraCalls[1].arg = s * (lastCall.x - 2 * last_x_position)
            /\ cameraCalls[2].arg = s * (2 * last_y_position - lastCall.y)
       ELSE /\ cameraCalls[1].arg = s * (lastCall.x - lastCall.px)
            /\ cameraCalls[2].arg = s * (lastCall.py - lastCall.y)
    /\ last_x_position = ToInt(lastCall.x)
    /\ last_y_position = ToInt(lastCall.y)

MoveOf == [k \in MoveKeys |->
             IF k = GLFW_KEY_W THEN "MoveFront"
             ELSE IF k = GLFW_KEY_S THEN "MoveBack"
             ELSE IF k = GLFW_KEY_A THEN "MoveLeft"
             ELSE "MoveRight"]

CallCount(calls, op) == Cardinality({i \in DOMAIN calls : calls[i].op = op})

\* C7: one UpdateCameraPose makes one MoveFront, MoveBack, MoveLeft,
\* MoveRight call for each of W, S, A, D that is held, none for the others
\* and no other call, and leaves the held-key vector as it was.
C7_MovePerHeldKey ==
  lastCall.op = "UpdateCameraPose" =>
    /\ \A k \in MoveKeys :
         CallCount(cameraCalls, MoveOf[k]) = IF k \in heldBefore THEN 1 ELSE 0
    /\ Len(cameraCalls) = Cardinality(heldBefore \cap MoveKeys)
    /\ movement_vector_ptr.held = heldBefore
    /\ (heldBefore \cap MoveKeys = {GLFW_KEY_W, GLFW_KEY_A}) =>
         {cameraCalls[i].op : i \in DOMAIN cameraCalls} =
           {"MoveFront", "MoveLeft"}

C7_Witness ==
  /\ lastCall.op = "UpdateCameraPose"
  /\ heldBefore = {GLFW_KEY_W, GLFW_KEY_A}
  /\ Len(cameraCalls) = 2

Constructed == pc \notin (PreShaderSteps \cup {"ConstructModels"})
               /\ failedStep = "none"

\* C8: each constructed model was uploaded exactly once, before its first
\* Draw and never after one, and each of its indices is below its column
\* count (pyramid 5, cube 8).
C8_UploadOnce ==
  /\ \A i \in DOMAIN models_to_draw :
       LET m == models_to_draw[i] IN
       /\ m.uploads = 1
       /\ m.drawsNotUploaded = 0
       /\ m.uploadsAfterDraw = 0
       /\ \A j \in DOMAIN m.indices : m.indices[j] >= 0 /\ m.indices[j] < m.cols
  /\ Constructed =>
       /\ Len(models_to_draw) = 2
       /\ models_to_draw[1].name = "pyramid" /\ models_to_draw[1].cols = 5
       /\ models_to_draw[2].name = "cube" /\ models_to_draw[2].cols = 8

C8_Witness ==
  /\ frames >= 2
  /\ Len(models_to_draw) = 2
  /\ \A i \in DOMAIN models_to_draw : models_to_draw[i].draws = frames

C10_Projection ==
  (pc \notin (PreShaderSteps \cup {"ConstructModels", "LoadTexture",
                                   "projection"})
   /\ failedStep = "none") =>
    /\ projectionCount = 1
    /\ projection.fov_deg = 45
    /\ projection.aspect[1] * kWindowHeight = kWindowWidth * projection.aspect[2]
    /\ projection.near_x10 = 1
    /\ projection.far_x10 = 200
    /\ \A j \in DOMAIN drawLog : drawLog[j].projection = projection

====
